---- MODULE Spec2Model ----
(***************************************************************************)
(* Model of backend/app/nodes/llm/_utils.py (pyspur): the retry wrapper    *)
(* async_retry around completion_with_backoff and ollama_with_backoff,     *)
(* generate_text (request shaping, JSON post-processing),                  *)
(* convert_output_schema_to_json_schema, LLMModels.get_model_info,         *)
(* create_messages, the clean-up of AZURE_OPENAI_API_BASE at module load   *)
(* and the error log of completion_with_backoff.                           *)
(*                                                                         *)
(* Model ids "provider/name" are pairs <<provider, name>>.                 *)
(***************************************************************************)
EXTENDS Integers, Sequences, FiniteSets, TLC

VARIABLES
    azure_key,     \* os.getenv("AZURE_OPENAI_API_KEY"): "" when unset
    retry_state,   \* r._retry_state of each decorated function's AsyncRetrying r
    rcs,           \* the RetryCallState objects, one per __aiter__ call
    inv,           \* the invocations of wrapped_f (coroutines in flight)
    gen,           \* a caller of generate_text: arguments, position, results
    messages,      \* the caller's messages list, as generate_text leaves it
    conv,          \* a call of convert_output_schema_to_json_schema
    looked_up,     \* the answers of LLMModels.get_model_info so far, by model id
    azure_api_base,\* os.environ["AZURE_OPENAI_API_BASE"] around the module load
    body,          \* a run of the body of completion_with_backoff, and its log
    created        \* a call of create_messages

retryVars == <<azure_key, retry_state, rcs, inv>>

genVars == <<gen, messages>>

helperVars == <<looked_up, azure_api_base, body, created>>

vars == <<azure_key, retry_state, rcs, inv, gen, messages, conv, helperVars>>

(***************************************************************************)
(* Bounds and input sets of the retry model.                               *)
(***************************************************************************)
NumCalls == 2

\* Successive generate_text calls on one messages list.
MaxGenCalls == 2

\* Length of a provider response text.
MaxRespLen == 3

\* Number of fields of an output schema.
MaxFields == 2

Invocations == 1..NumCalls

Wrapped == {"completion_with_backoff", "ollama_with_backoff"}

RetryModels == {<<"azure", "gpt-4">>, <<"openai", "gpt-4o">>, <<"ollama", "phi4">>}

AzureKeys == {"", "key"}

Contents == {"text"}

NoRetryErrors == {"AuthenticationError", "ValueError", "RateLimitError"}

Errors == NoRetryErrors \cup {"APIConnectionError"}

(***************************************************************************)
(* str.startswith on model ids.                                            *)
(***************************************************************************)
StartsWithAzureSlash(model) == model[1] = "azure"

StartsWithOllamaSlash(model) == model[1] = "ollama"

(***************************************************************************)
(* completion_with_backoff: the body of the decorated coroutine.           *)
(***************************************************************************)
\* _providers.setup_azure_configuration: the Azure-configured arguments.
setup_azure_configuration(kwargs) == [config |-> "azure", kwargs |-> kwargs]

\* acompletion(**kwargs): the caller's keyword arguments as they are.
Forward(kwargs) == [config |-> "caller", kwargs |-> kwargs]

\* A plausible slip: the Azure key wins even for an ollama/ model.
UseAzureIgnoringOllama(model, key) == StartsWithAzureSlash(model) \/ key # ""

\* Line 468: the condition of the Azure branch ("" is falsy).
UseAzure(model, key) ==
    StartsWithAzureSlash(model) \/ (key # "" /\ ~StartsWithOllamaSlash(model))

\* The call completion_with_backoff issues for kwargs.
CompletionRequest(kwargs, key) ==
    IF UseAzure(kwargs.model, key)
    THEN [endpoint |-> "acompletion", branch |-> "azure",
          args |-> setup_azure_configuration(kwargs)]
    ELSE IF StartsWithOllamaSlash(kwargs.model)
    THEN [endpoint |-> "acompletion", branch |-> "ollama", args |-> Forward(kwargs)]
    ELSE [endpoint |-> "acompletion", branch |-> "standard", args |-> Forward(kwargs)]

\* ollama_with_backoff: client.chat(model=model.replace("ollama/", ""), ...).
OllamaRequest(kwargs) ==
    [endpoint |-> "client.chat", branch |-> "ollama",
     args |-> Forward([model |-> <<"", kwargs.model[2]>>])]

Request(fn, kwargs, key) ==
    IF fn = "completion_with_backoff" THEN CompletionRequest(kwargs, key)
    ELSE OllamaRequest(kwargs)

\* The provider's response object carrying `content`.
Response(content) == [choices |-> <<[message |-> [content |-> content]]>>]

\* response.choices[0].message.content
FirstChoiceContent(response) == response.choices[1].message.content

(***************************************************************************)
(* tenacity, as async_retry uses it: one AsyncRetrying object r per        *)
(* decorated function (line 433), iterated by every call of wrapped_f.     *)
(***************************************************************************)
\* RetryCallState(self, fn=None, args=(), kwargs={}) as __aiter__ makes it.
NewRetryCallState ==
    [class |-> "RetryCallState", attempt_number |-> 1, outcome |-> "none", exc |-> "-"]

NoState == [class |-> "-", attempt_number |-> 0, outcome |-> "none", exc |-> "-"]

\* Lines 448-455: not isinstance(e, (AuthenticationError, ValueError,
\* RateLimitError)), where tenacity passes the RetryCallState as e.
RetryLambda(e) == ~(e.class \in NoRetryErrors)

\* tenacity's default retry=retry_if_exception_type(): the outcome failed
\* with an Exception (every error kind of the model is one).
retry_if_exception_type(rs) == rs.outcome = "failed"

Retry(fn, rs) ==
    IF fn = "completion_with_backoff" THEN RetryLambda(rs)
    ELSE retry_if_exception_type(rs)

MaxAttempts == 3

\* stop=stop_after_attempt(3)
stop_after_attempt(rs) == rs.attempt_number >= MaxAttempts

\* BaseRetrying.iter(retry_state): what __anext__ is told to do.
Iter(fn, rs) ==
    IF rs.outcome = "none" THEN "DoAttempt"
    ELSE IF ~Retry(fn, rs)
         THEN (IF rs.outcome = "failed" THEN "Reraise" ELSE "ReturnNone")
    ELSE IF stop_after_attempt(rs) THEN "RetryError"
    ELSE "DoSleep"

\* RetryCallState.prepare_for_next_attempt
prepare_for_next_attempt(rs) ==
    [rs EXCEPT !.outcome = "none", !.exc = "-", !.attempt_number = @ + 1]

set_exception(rs, e) == [rs EXCEPT !.outcome = "failed", !.exc = e]

\* AttemptManager.__exit__ without exception: set_result(None)
set_result(rs) == [rs EXCEPT !.outcome = "result", !.exc = "-"]

\* self._retry_state: what __anext__ of the shared r consults for wrapped_f.
SharedRetryState(i, fn) == retry_state[fn]

IdleInvocation ==
    [pc |-> "idle", fn |-> "-", kwargs |-> [model |-> <<"-", "-">>],
     attempt |-> 0, attempts |-> 0, failures |-> 0, last |-> "-",
     sent |-> [endpoint |-> "-", branch |-> "-",
               args |-> Forward([model |-> <<"-", "-">>])],
     response |-> Response("-"), result |-> "-", error |-> "-"]

\* AsyncRetrying.__anext__ for invocation I of wrapped_f, followed by what
\* wrapped_f does with it up to its next suspension; cur is the object id in
\* r._retry_state, R the RetryCallState objects. Gives the new I and R.
Anext(I, cur, R) ==
    LET do == Iter(I.fn, R[cur]) IN
    CASE do = "DoAttempt" ->
           \* AttemptManager(retry_state=self._retry_state); await f(...)
           [inv |-> [I EXCEPT !.pc = "awaiting", !.attempt = cur,
                              !.attempts = @ + 1,
                              !.sent = Request(I.fn, I.kwargs, azure_key)],
            rcs |-> R]
      [] do = "DoSleep" ->
           [inv |-> [I EXCEPT !.pc = "sleeping"],
            rcs |-> [R EXCEPT ![cur] = prepare_for_next_attempt(@)]]
      [] do = "RetryError" ->
           [inv |-> [I EXCEPT !.pc = "raised", !.error = "RetryError"], rcs |-> R]
      [] do = "Reraise" ->
           [inv |-> [I EXCEPT !.pc = "raised", !.error = R[cur].exc], rcs |-> R]
      [] do = "ReturnNone" ->
           \* StopAsyncIteration: the async for ends and wrapped_f returns None
           [inv |-> [I EXCEPT !.pc = "returned", !.result = "None"], rcs |-> R]

(***************************************************************************)
(* The model registry. Temperatures are in tenths.                         *)
(***************************************************************************)
\* class LLMModels(str, Enum): the member values.
LLMModels ==
    {<<"openai", "gpt-4o-mini">>,
     <<"openai", "gpt-4o">>,
     <<"openai", "o1-preview">>,
     <<"openai", "o1-mini">>,
     <<"openai", "o1">>,
     <<"openai", "o1-2024-12-17">>,
     <<"openai", "o1-mini-2024-09-12">>,
     <<"openai", "o1-preview-2024-09-12">>,
     <<"openai", "gpt-4-turbo">>,
     <<"openai", "chatgpt-4o-latest">>,
     <<"azure", "gpt-4">>,
     <<"azure", "gpt-4-turbo">>,
     <<"azure", "gpt-35-turbo">>,
     <<"anthropic", "claude-3-5-sonnet-latest">>,
     <<"anthropic", "claude-3-5-haiku-latest">>,
     <<"anthropic", "claude-3-opus-latest">>,
     <<"gemini", "gemini-2.0-flash-exp">>,
     <<"gemini", "gemini-1.5-pro">>,
     <<"gemini", "gemini-1.5-flash">>,
     <<"gemini", "gemini-1.5-pro-latest">>,
     <<"gemini", "gemini-1.5-flash-latest">>,
     <<"deepseek", "deepseek-chat">>,
     <<"deepseek", "deepseek-reasoner">>,
     <<"ollama", "phi4">>,
     <<"ollama", "llama3.3:70b">>,
     <<"ollama", "llama3.3:8b">>,
     <<"ollama", "llama3.2:8b">>,
     <<"ollama", "llama3.2:1b">>,
     <<"ollama", "llama3">>,
     <<"ollama", "gemma2">>,
     <<"ollama", "gemma2:2b">>,
     <<"ollama", "mistral">>,
     <<"ollama", "codellama">>,
     <<"ollama", "mixtral-8x7b-instruct-v0.1">>,
     <<"ollama", "deepseek-r1">>}

\* LLMModel(id, provider, constraints=ModelConstraints(max_tokens,
\* min_temperature=0.0, max_temperature, supports_JSON_output=True)).
LLMModel(id, provider, max_tokens, max_temperature, supports_JSON_output) ==
    [id |-> id, provider |-> provider,
     constraints |-> [max_tokens |-> max_tokens, min_temperature |-> 0,
                      max_temperature |-> max_temperature,
                      supports_JSON_output |-> supports_JSON_output]]

\* The dictionary built in get_model_info, as the set of its values.
model_registry ==
    {LLMModel(<<"openai", "gpt-4o-mini">>, "openai", 16384, 20, TRUE),
     LLMModel(<<"openai", "gpt-4o">>, "openai", 16384, 20, TRUE),
     LLMModel(<<"openai", "o1-preview">>, "openai", 32768, 20, TRUE),
     LLMModel(<<"openai", "o1-mini">>, "openai", 65536, 20, TRUE),
     LLMModel(<<"openai", "o1">>, "openai", 100000, 20, TRUE),
     LLMModel(<<"openai", "o1-2024-12-17">>, "openai", 100000, 20, TRUE),
     LLMModel(<<"openai", "o1-mini-2024-09-12">>, "openai", 65536, 20, TRUE),
     LLMModel(<<"openai", "o1-preview-2024-09-12">>, "openai", 32768, 20, TRUE),
     LLMModel(<<"openai", "gpt-4-turbo">>, "openai", 4096, 20, TRUE),
     LLMModel(<<"openai", "chatgpt-4o-latest">>, "openai", 4096, 20, TRUE),
     LLMModel(<<"azure", "gpt-4">>, "azure", 4096, 20, TRUE),
     LLMModel(<<"azure", "gpt-4-turbo">>, "azure", 4096, 20, TRUE),
     LLMModel(<<"azure", "gpt-35-turbo">>, "azure", 4096, 20, TRUE),
     LLMModel(<<"anthropic", "claude-3-5-sonnet-latest">>, "anthropic", 8192, 10, FALSE),
     LLMModel(<<"anthropic", "claude-3-5-haiku-latest">>, "anthropic", 8192, 10, FALSE),
     LLMModel(<<"anthropic", "claude-3-opus-latest">>, "anthropic", 4096, 10, FALSE),
     LLMModel(<<"gemini", "gemini-1.5-pro">>, "gemini", 8192, 10, TRUE),
     LLMModel(<<"gemini", "gemini-1.5-flash">>, "gemini", 8192, 10, TRUE),
     LLMModel(<<"gemini", "gemini-1.5-pro-latest">>, "gemini", 8192, 10, TRUE),
     LLMModel(<<"gemini", "gemini-1.5-flash-latest">>, "gemini", 8192, 10, TRUE),
     LLMModel(<<"deepseek", "deepseek-chat">>, "deepseek", 8192, 20, FALSE),
     LLMModel(<<"deepseek", "deepseek-reasoner">>, "deepseek", 8192, 20, FALSE),
     LLMModel(<<"ollama", "phi4">>, "ollama", 4096, 20, TRUE),
     LLMModel(<<"ollama", "llama3.3:70b">>, "ollama", 4096, 20, TRUE),
     LLMModel(<<"ollama", "llama3.3:8b">>, "ollama", 4096, 20, TRUE),
     LLMModel(<<"ollama", "llama3.2:8b">>, "ollama", 4096, 20, TRUE),
     LLMModel(<<"ollama", "llama3.2:1b">>, "ollama", 4096, 20, TRUE),
     LLMModel(<<"ollama", "llama3">>, "ollama", 4096, 20, TRUE),
     LLMModel(<<"ollama", "gemma2">>, "ollama", 4096, 20, TRUE),
     LLMModel(<<"ollama", "gemma2:2b">>, "ollama", 4096, 20, TRUE),
     LLMModel(<<"ollama", "mistral">>, "ollama", 4096, 20, TRUE),
     LLMModel(<<"ollama", "codellama">>, "ollama", 4096, 20, TRUE),
     LLMModel(<<"ollama", "mixtral-8x7b-instruct-v0.1">>, "ollama", 4096, 20, TRUE),
     LLMModel(<<"ollama", "deepseek-r1">>, "ollama", 4096, 20, TRUE)}

RegisteredIds == {e.id : e \in model_registry}

\* model_registry.get(model_id) is None
NotRegistered(model_id) == model_id \notin RegisteredIds

\* model_registry.get(model_id), for a registered id.
get_model_info(model_id) == CHOOSE e \in model_registry : e.id = model_id

\* A plausible slip: a model without registry entry counts as JSON-capable.
SupportsJsonByDefault(model_name) ==
    NotRegistered(model_name)
    \/ get_model_info(model_name).constraints.supports_JSON_output

\* Line 529: model_info and model_info.constraints.supports_JSON_output
SupportsJson(model_name) ==
    /\ ~NotRegistered(model_name)
    /\ get_model_info(model_name).constraints.supports_JSON_output

(***************************************************************************)
(* Text. A str is a sequence of one-character strings.                     *)
(***************************************************************************)
DQ == "\""

BS == "\\"

NL == "\n"

\* str.replace(old, new) for a one-character old.
RECURSIVE Replace(_, _, _)
Replace(s, old, new) ==
    IF s = <<>> THEN <<>>
    ELSE (IF Head(s) = old THEN new ELSE <<Head(s)>>) \o Replace(Tail(s), old, new)

\* Lines 652 and 683: response.replace('"', '\\"').replace("\n", "\\n")
Sanitize(response) == Replace(Replace(response, DQ, <<BS, DQ>>), NL, <<BS, "n">>)

\* Lines 661 and 692: f'{{"output": "{sanitized_response}"}}'
WrapOutput(sanitized_response) ==
    <<"{", DQ, "o", "u", "t", "p", "u", "t", DQ, ":", " ", DQ>>
    \o sanitized_response \o <<DQ, "}">>

(***************************************************************************)
(* json.loads on the texts of the model: objects, strings and unsigned     *)
(* integers with JSON whitespace. The characters of the model cannot spell *)
(* an array, a literal, a fraction or a \u, \b or \f escape.               *)
(***************************************************************************)
Whitespace == {" ", "\n", "\t", "\r"}

ControlChars == {"\n", "\t", "\r"}

Digits == {"0", "1", "2", "3", "4", "5", "6", "7", "8", "9"}

\* The character an escape sequence \c stands for.
Unescape(c) ==
    CASE c = DQ -> DQ [] c = BS -> BS [] c = "/" -> "/"
      [] c = "n" -> "\n" [] c = "t" -> "\t" [] c = "r" -> "\r"

Escapable == {DQ, BS, "/", "n", "t", "r"}

RECURSIVE SkipWs(_, _)
SkipWs(s, i) == IF i <= Len(s) /\ s[i] \in Whitespace THEN SkipWs(s, i + 1) ELSE i

NoParse == [end |-> 0, value |-> <<>>]

\* The rest of a string literal from position i: the position after its
\* closing quote (0 when it is malformed) and the decoded characters.
RECURSIVE ScanString(_, _, _)
ScanString(s, i, acc) ==
    IF i > Len(s) THEN NoParse
    ELSE IF s[i] = DQ THEN [end |-> i + 1, value |-> acc]
    ELSE IF s[i] = BS
         THEN IF i + 1 <= Len(s) /\ s[i + 1] \in Escapable
              THEN ScanString(s, i + 2, Append(acc, Unescape(s[i + 1])))
              ELSE NoParse
    ELSE IF s[i] \in ControlChars THEN NoParse
    ELSE ScanString(s, i + 1, Append(acc, s[i]))

ParseString(s, i) ==
    IF i <= Len(s) /\ s[i] = DQ THEN ScanString(s, i + 1, <<>>) ELSE NoParse

RECURSIVE SkipDigits(_, _)
SkipDigits(s, i) == IF i <= Len(s) /\ s[i] \in Digits THEN SkipDigits(s, i + 1) ELSE i

\* An unsigned integer: 0, or a digit string without leading zero.
ParseNumber(s, i) == IF s[i] = "0" THEN i + 1 ELSE SkipDigits(s, i)

\* The position after the JSON value that starts at or after i; 0 if none.
RECURSIVE ParseValue(_, _), ParseMembers(_, _)
ParseValue(s, i0) ==
    LET i == SkipWs(s, i0) IN
    IF i > Len(s) THEN 0
    ELSE IF s[i] = DQ THEN ParseString(s, i).end
    ELSE IF s[i] \in Digits THEN ParseNumber(s, i)
    ELSE IF s[i] = "{"
         THEN LET j == SkipWs(s, i + 1) IN
              IF j <= Len(s) /\ s[j] = "}" THEN j + 1 ELSE ParseMembers(s, j)
    ELSE 0

ParseMembers(s, i) ==
    LET k == ParseString(s, i)
        c == SkipWs(s, k.end)
    IN IF k.end = 0 \/ c > Len(s) \/ s[c] # ":" THEN 0
       ELSE LET v == ParseValue(s, c + 1)
                e == SkipWs(s, v)
            IN IF v = 0 \/ e > Len(s) THEN 0
               ELSE IF s[e] = "}" THEN e + 1
               ELSE IF s[e] = "," THEN ParseMembers(s, SkipWs(s, e + 1))
               ELSE 0

\* json.loads(s) does not raise JSONDecodeError.
JsonValid(s) ==
    LET e == ParseValue(s, 1) IN e # 0 /\ SkipWs(s, e) = Len(s) + 1

Undefined == [defined |-> FALSE, value |-> <<>>]

\* json.loads(s)["output"] when s is an object whose one member is "output"
\* with a string value.
JsonOutputField(s) ==
    IF ~JsonValid(s) THEN Undefined
    ELSE LET i == SkipWs(s, 1) IN
         IF s[i] # "{" THEN Undefined
         ELSE LET k == ParseString(s, SkipWs(s, i + 1)) IN
              IF k.end = 0 \/ k.value # <<"o", "u", "t", "p", "u", "t">>
              THEN Undefined
              ELSE LET v == ParseString(s, SkipWs(s, SkipWs(s, k.end) + 1))
                       e == SkipWs(s, v.end)
                   IN IF v.end = 0 \/ s[e] # "}" THEN Undefined
                      ELSE [defined |-> TRUE, value |-> v.value]

(***************************************************************************)
(* generate_text, lines 650-694: what is returned for a response.          *)
(***************************************************************************)
Positions(s, c) == {i \in 1..Len(s) : s[i] = c}

Min(S) == CHOOSE x \in S : \A y \in S : x <= y

Max(S) == CHOOSE x \in S : \A y \in S : x >= y

\* re.search(r"\{.*\}", response, re.DOTALL): from the first "{" to the last
\* "}" after it.
HasJsonMatch(response) ==
    Positions(response, "{") # {}
    /\ \E j \in Positions(response, "}") : j > Min(Positions(response, "{"))

JsonMatch(response) ==
    SubSeq(response, Min(Positions(response, "{")), Max(Positions(response, "}")))

\* Lines 651-661. raw_response is the str the backend returned, so it has no
\* `choices` and line 661 is what returns.
WrapNonJson(response) == WrapOutput(Sanitize(response))

\* Lines 664-692.
EnsureJson(response) ==
    IF JsonValid(response) THEN response
    ELSE LET extracted ==
                 IF (response = <<>> \/ response[1] # "{") /\ HasJsonMatch(response)
                 THEN JsonMatch(response)
                 ELSE response
         IN IF JsonValid(extracted) THEN extracted
            ELSE WrapOutput(Sanitize(extracted))

PostProcess(supports_json, response) ==
    IF ~supports_json THEN WrapNonJson(response) ELSE EnsureJson(response)

(***************************************************************************)
(* convert_output_schema_to_json_schema. A dict is the sequence of its     *)
(* items in insertion order (its keys are distinct).                       *)
(***************************************************************************)
SupportedTypes ==
    {"str", "string", "int", "integer", "float", "number", "bool", "boolean"}

\* Lines 712-719: the JSON type the if/elif chain picks for a field type.
JsonTypeOf(field_type) ==
    CASE field_type \in {"str", "string"} -> "string"
      [] field_type \in {"int", "integer"} -> "integer"
      [] field_type \in {"float", "number"} -> "number"
      [] field_type \in {"bool", "boolean"} -> "boolean"

\* Lines 705-710: json_schema before the loop.
EmptyJsonSchema ==
    [type |-> "object", properties |-> <<>>, required |-> <<>>,
     additionalProperties |-> FALSE]

\* Lines 711-720: the loop over output_schema.items().
RECURSIVE ConvertItems(_, _)
ConvertItems(items, json_schema) ==
    IF items = <<>> THEN json_schema
    ELSE LET item == Head(items)
             with_property ==
                 IF item.type \in SupportedTypes
                 THEN [json_schema EXCEPT !.properties =
                          Append(@, [field |-> item.field,
                                     schema |-> [type |-> JsonTypeOf(item.type)]])]
                 ELSE json_schema
         IN ConvertItems(Tail(items),
                         [with_property EXCEPT !.required = Append(@, item.field)])

convert_output_schema_to_json_schema(output_schema) ==
    ConvertItems(output_schema, EmptyJsonSchema)

(***************************************************************************)
(* generate_text, lines 516-648: the request.                              *)
(***************************************************************************)
\* A message content: a str (text) or, after the Gemini transformation, a
\* list of parts.
StrContent(text) == [kind |-> "str", text |-> text, parts |-> <<>>]

ListContent(parts) == [kind |-> "list", text |-> <<>>, parts |-> parts]

Message(role, text) == [role |-> role, content |-> StrContent(text)]

\* Line 576: the text appended to the system message, before the schema.
SchemaInstruction ==
    "\nYou must respond with valid JSON only. No other text before or after the JSON Object. The JSON Object must adhere to this schema: "

\* Lines 639-642: the system message inserted in JSON mode.
JsonOnlyMessage ==
    Message("system",
            <<"You must respond with valid JSON only. No other text before or after the JSON Object.">>)

\* The values of output_json_schema: None, a str, or the dict it becomes.
NoneSchema ==
    [kind |-> "None", origin |-> "-", keys |-> {}, additionalProperties |-> "absent",
     converted |-> EmptyJsonSchema]

StrSchema(text) == [NoneSchema EXCEPT !.kind = "str", !.origin = text]

DictSchema(origin, keys, converted) ==
    [kind |-> "dict", origin |-> origin, keys |-> keys,
     additionalProperties |->
         IF "additionalProperties" \in keys THEN "False" ELSE "absent",
     converted |-> converted]

\* Schema texts a caller passes: a plain object schema, and one that carries
\* its own "name" and "schema" keys.
PlainSchemaText == "{\"type\": \"object\", \"properties\": {}}"

NamedSchemaText == "{\"name\": \"answer\", \"schema\": {\"type\": \"object\"}}"

BlankTexts == {"", "  "}

\* json.loads of a schema text.
JsonLoadsSchema(text) ==
    CASE text = PlainSchemaText -> DictSchema(text, {"type", "properties"}, EmptyJsonSchema)
      [] text = NamedSchemaText -> DictSchema(text, {"name", "schema"}, EmptyJsonSchema)

\* Line 534: {"output": "string"}
DefaultOutputSchema == <<[field |-> "output", type |-> "string"]>>

\* Lines 535-539
DefaultJsonSchema ==
    DictSchema("default", {"type", "properties", "required"}, EmptyJsonSchema)

\* Lines 533-543: output_schema and output_json_schema after the if/elif
\* chain; a blank output_json_schema passes through all of its branches.
SchemaArguments(output_json_schema, output_schema) ==
    IF output_json_schema.kind = "None" /\ output_schema = <<>>
    THEN [output_schema |-> DefaultOutputSchema, output_json_schema |-> DefaultJsonSchema]
    ELSE IF output_json_schema.kind = "None"
    THEN [output_schema |-> output_schema,
          output_json_schema |->
              DictSchema("converted",
                         {"type", "properties", "required", "additionalProperties"},
                         convert_output_schema_to_json_schema(output_schema))]
    ELSE IF output_json_schema.origin \notin BlankTexts
    THEN [output_schema |-> output_schema,
          output_json_schema |-> JsonLoadsSchema(output_json_schema.origin)]
    ELSE [output_schema |-> output_schema, output_json_schema |-> output_json_schema]

\* Line 544: output_json_schema["additionalProperties"] = False, on a dict.
SetAdditionalProperties(schema) ==
    [schema EXCEPT !.keys = @ \cup {"additionalProperties"},
                   !.additionalProperties = "False"]

\* Lines 551-559: the wrapper around a schema without "name" and "schema".
JsonSchemaField(schema) ==
    IF "name" \notin schema.keys /\ "schema" \notin schema.keys
    THEN [wrapped |-> TRUE, strict |-> "True", name |-> "output", schema |-> schema]
    ELSE [wrapped |-> FALSE, strict |-> "-", name |-> "-", schema |-> schema]

NoResponseFormat ==
    [present |-> FALSE, type |-> "-", json_schema |-> JsonSchemaField(NoneSchema)]

\* Lines 560-563
JsonSchemaFormat(schema) ==
    [present |-> TRUE, type |-> "json_schema", json_schema |-> JsonSchemaField(schema)]

\* Line 565
JsonObjectFormat ==
    [present |-> TRUE, type |-> "json_object", json_schema |-> JsonSchemaField(NoneSchema)]

\* json.dumps of the schema put into the prompt, as one piece of text.
Dumps(output_schema, output_json_schema) ==
    IF output_schema # <<>>
    THEN <<"json.dumps(output_schema)">>
         \o [i \in 1..Len(output_schema) |-> output_schema[i].field]
         \o [i \in 1..Len(output_schema) |-> output_schema[i].type]
    ELSE IF output_json_schema.kind = "dict"
    THEN <<"json.dumps(output_json_schema)", output_json_schema.origin>>
    ELSE <<"json.dumps({\"output\": \"string\"})">>

\* Lines 566-571: schema_for_prompt
SchemaForPrompt(output_schema, output_json_schema) ==
    Dumps(output_schema, output_json_schema)

HasSystemMessage(msgs) == \E i \in 1..Len(msgs) : msgs[i].role = "system"

\* Line 572: next(message for message in messages if message["role"] == "system")
FirstSystemMessage(msgs) ==
    CHOOSE i \in 1..Len(msgs) :
        msgs[i].role = "system" /\ \A j \in 1..(i - 1) : msgs[j].role # "system"

\* Lines 575-578: system_message["content"] += ...
AppendSchemaInstruction(msgs, schema_for_prompt) ==
    [msgs EXCEPT ![FirstSystemMessage(msgs)].content.text =
        @ \o <<SchemaInstruction>> \o schema_for_prompt]

\* Lines 597-631: the content list of a user message. The text part holds
\* the old content; each non-empty URL adds an image_url part.
TextPart(content) ==
    [type |-> "text",
     data |-> IF content.kind = "str" THEN content.text ELSE <<"<content list>">>]

ImagePart(url) ==
    [type |-> "image_url",
     data |-> IF url = "file" THEN <<"data:<base64 of file>">> ELSE <<url>>]

UrlParts(urls) ==
    LET given == SelectSeq(urls, LAMBDA u : u # "")
    IN [i \in 1..Len(given) |-> ImagePart(given[i])]

\* Lines 594-633: every user message gets the content list.
TransformMessages(msgs, urls) ==
    [i \in 1..Len(msgs) |->
        IF msgs[i].role = "user"
        THEN [msgs[i] EXCEPT !.content =
                  ListContent(<<TextPart(msgs[i].content)>> \o UrlParts(urls))]
        ELSE msgs[i]]

\* Lines 637-643: messages.insert(0, ...)
InsertJsonOnlyMessage(msgs) == <<JsonOnlyMessage>> \o msgs

StartsWithOllama(model_name) == model_name[1] = "ollama"

StartsWithGemini(model_name) == model_name[1] = "gemini"

\* Lines 516-523: kwargs; the temperature (in tenths) is dropped for
\* deepseek-reasoner: <<>> is a missing key.
InitialKwargs(model_name, msgs, temperature) ==
    [model |-> model_name, max_tokens |-> "max_tokens", messages |-> msgs,
     temperature |-> IF model_name = <<"deepseek", "deepseek-reasoner">>
                     THEN <<>> ELSE <<temperature>>,
     response_format |-> NoResponseFormat]

\* Lines 582-589: the arguments of the ollama_with_backoff call, with
\* options = OllamaOptions(temperature=temperature, max_tokens=max_tokens).
OllamaCall(a, msgs) ==
    [model |-> a.model_name,
     options |-> [temperature |-> <<a.temperature>>, max_tokens |-> "max_tokens"],
     messages |-> msgs, format |-> "json", api_base |-> a.api_base]

\* No call of ollama_with_backoff.
NoOllamaCall ==
    [model |-> <<"-", "-">>, options |-> [temperature |-> <<>>, max_tokens |-> "-"],
     messages |-> <<>>, format |-> "-", api_base |-> <<>>]

GenRaised(error, msgs) ==
    [raised |-> TRUE, error |-> error, messages |-> msgs, backend |-> "-",
     format |-> "-", kwargs |-> InitialKwargs(<<"-", "-">>, <<>>, 0),
     ollama |-> NoOllamaCall]

GenSent(backend, format, kwargs, msgs) ==
    [raised |-> FALSE, error |-> "-", messages |-> msgs, backend |-> backend,
     format |-> format, kwargs |-> kwargs, ollama |-> NoOllamaCall]

\* Lines 580-648: the backend call, for the kwargs and messages so far.
Route(a, supports_json, kwargs, msgs, readable) ==
    IF a.json_mode /\ supports_json
    THEN IF StartsWithOllama(a.model_name)
         THEN [GenSent("ollama_with_backoff", "json", kwargs, msgs)
                  EXCEPT !.ollama = OllamaCall(a, msgs)]
         ELSE IF StartsWithGemini(a.model_name) /\ a.url_variables # <<>>
         THEN IF \E i \in 1..Len(msgs) : msgs[i].role = "user"
                 /\ \E k \in 1..Len(a.url_variables) :
                        a.url_variables[k] = "file" /\ ~readable
              THEN GenRaised("OSError", msgs)
              ELSE LET transformed == TransformMessages(msgs, a.url_variables)
                   IN GenSent("completion_with_backoff", "-",
                              [kwargs EXCEPT !.messages = transformed], transformed)
         ELSE LET inserted == InsertJsonOnlyMessage(msgs)
              IN GenSent("completion_with_backoff", "-",
                         [kwargs EXCEPT !.messages = inserted], inserted)
    ELSE GenSent("completion_with_backoff", "-", kwargs, msgs)

\* Lines 516-648 up to the await of the backend. a: the arguments; msgs: the
\* caller's list; caps: litellm's answers about the model; readable: whether
\* a file named in url_variables can be read. kwargs["messages"] is the
\* caller's list itself, so it follows every change of the list.
BuildRequest(a, msgs, caps, readable) ==
    LET supports_json == SupportsJson(a.model_name)
        kwargs == InitialKwargs(a.model_name, msgs, a.temperature)
    IN IF ~supports_json
       THEN Route(a, supports_json, kwargs, msgs, readable)
       ELSE LET sa == SchemaArguments(a.output_json_schema, a.output_schema) IN
            IF sa.output_json_schema.kind # "dict"
            THEN GenRaised("TypeError", msgs)
            ELSE LET schema == SetAdditionalProperties(sa.output_json_schema) IN
                 IF ~caps.response_format
                 THEN Route(a, supports_json, kwargs, msgs, readable)
                 ELSE IF caps.response_schema
                 THEN Route(a, supports_json,
                            [kwargs EXCEPT !.response_format = JsonSchemaFormat(schema)],
                            msgs, readable)
                 ELSE IF ~HasSystemMessage(msgs)
                 THEN GenRaised("StopIteration", msgs)
                 ELSE LET appended ==
                              AppendSchemaInstruction(
                                  msgs, SchemaForPrompt(sa.output_schema, schema))
                      IN Route(a, supports_json,
                               [kwargs EXCEPT !.response_format = JsonObjectFormat,
                                              !.messages = appended],
                               appended, readable)

(***************************************************************************)
(* LLMModels.get_model_info as a caller sees it.                           *)
(***************************************************************************)
\* The ids looked up: every member of the enumeration and some other ids.
LookupIds ==
    LLMModels \cup {<<"mistral", "mistral-large">>, <<"openai", "gpt-3.5-turbo">>,
                    <<"gemini", "gemini-pro">>}

\* Line 342: model_registry.get(model_id), None when the id has no entry.
RegistryGet(model_id) ==
    IF NotRegistered(model_id)
    THEN [found |-> FALSE, info |-> LLMModel(<<"-", "-">>, "-", 0, 0, FALSE)]
    ELSE [found |-> TRUE, info |-> get_model_info(model_id)]

(***************************************************************************)
(* The clean-up of AZURE_OPENAI_API_BASE at module load. A URL is the      *)
(* sequence of its characters.                                             *)
(***************************************************************************)
\* Number of parts an initial AZURE_OPENAI_API_BASE is put together from.
MaxBaseParts == 3

\* "/openai"
SlashOpenai == <<"/", "o", "p", "e", "n", "a", "i">>

\* str.rstrip(chars): trailing characters that are in chars are removed.
RECURSIVE RStrip(_, _)
RStrip(s, chars) ==
    IF s # <<>> /\ s[Len(s)] \in chars
    THEN RStrip(SubSeq(s, 1, Len(s) - 1), chars)
    ELSE s

\* str.endswith(suffix)
EndsWith(s, suffix) ==
    /\ Len(s) >= Len(suffix)
    /\ SubSeq(s, Len(s) - Len(suffix) + 1, Len(s)) = suffix

\* Lines 32-34: the value stored back for the initial value.
CleanAzureBase(initial) ==
    LET azure_api_base_1 == RStrip(initial, {"/"})
    IN IF EndsWith(azure_api_base_1, SlashOpenai)
       THEN RStrip(azure_api_base_1, {SlashOpenai[k] : k \in 1..Len(SlashOpenai)})
       ELSE azure_api_base_1

\* The initial values: unset (""), and URLs put together from host
\* characters, slashes and "/openai" segments.
RECURSIVE Flatten(_)
Flatten(parts) == IF parts = <<>> THEN <<>> ELSE Head(parts) \o Flatten(Tail(parts))

AzureBases ==
    {Flatten(parts) :
        parts \in UNION {[1..k -> {<<"h">>, <<"i">>, <<".">>, <<"/">>, SlashOpenai}] :
                            k \in 0..MaxBaseParts}}

(***************************************************************************)
(* The error path of completion_with_backoff (lines 489-502).              *)
(***************************************************************************)
\* The caller's keyword arguments: api_key and fallbacks (a list of dicts
\* of per-fallback arguments) are optional, <<>> when not passed.
CompletionKwargs ==
    [model : RetryModels,
     api_key : {<<>>, <<"sk-caller">>},
     fallbacks : {<<>>, <<[model |-> <<"openai", "gpt-4o-mini">>, api_key |-> <<>>]>>,
                  <<[model |-> <<"openai", "gpt-4o-mini">>, api_key |-> <<"sk-fallback">>]>>}]

\* Lines 492-493: save_config = kwargs.copy(), a copy of the top level only,
\* whose "api_key" is set to the mask, or to None when kwargs has none.
SaveConfig(kwargs) ==
    [kwargs EXCEPT !.api_key = IF kwargs.api_key # <<>> THEN <<"********">>
                               ELSE <<"None">>]

BodyReady(kwargs) ==
    [pc |-> "ready", called_with |-> kwargs, kwargs |-> kwargs, branch |-> "-",
     logged |-> <<>>, caught |-> "-", raised |-> "-", result |-> "-"]

(***************************************************************************)
(* create_messages (lines 369-383).                                        *)
(***************************************************************************)
\* Number of few-shot examples, and of history messages.
MaxExamples == 2

MaxHistory == 2

\* Lines 376-379: a user and an assistant message per example.
RECURSIVE ExamplePairs(_)
ExamplePairs(examples) ==
    IF examples = <<>> THEN <<>>
    ELSE <<Message("user", Head(examples).input),
           Message("assistant", Head(examples).output)>>
         \o ExamplePairs(Tail(examples))

\* A plausible slip: the history is put before the examples.
create_messages_history_first(system_message, user_message, few_shot_examples, history) ==
    <<Message("system", system_message)>> \o history
    \o ExamplePairs(few_shot_examples) \o <<Message("user", user_message)>>

\* The list create_messages returns; None and [] are both <<>>.
create_messages(system_message, user_message, few_shot_examples, history) ==
    <<Message("system", system_message)>> \o ExamplePairs(few_shot_examples)
    \o history \o <<Message("user", user_message)>>

\* The arguments of create_messages calls.
CreateArguments ==
    [system_message : {<<"be brief">>},
     user_message : {<<"question">>},
     few_shot_examples :
        UNION {[1..k -> {[input |-> <<"q1">>, output |-> <<"a1">>],
                         [input |-> <<"q2">>, output |-> <<"a2">>]}] :
                  k \in 0..MaxExamples},
     history :
        UNION {[1..k -> {Message("user", <<"earlier">>), Message("assistant", <<"reply">>),
                         Message("system", <<"note">>)}] : k \in 0..MaxHistory}]

CreatedReady(a) ==
    [pc |-> "ready", args |-> a, few_shot_examples |-> a.few_shot_examples,
     history |-> a.history, result |-> <<>>]

\* Before any of the helpers is used.
HelpersIdle ==
    /\ looked_up = {}
    /\ azure_api_base = [pc |-> "unloaded", initial |-> <<>>, stored |-> <<>>]
    /\ body = BodyReady([model |-> <<"-", "-">>, api_key |-> <<>>, fallbacks |-> <<>>])
    /\ created = CreatedReady([system_message |-> <<>>, user_message |-> <<>>,
                               few_shot_examples |-> <<>>, history |-> <<>>])

(***************************************************************************)
(* The retry state machine.                                                *)
(***************************************************************************)
\* Before any call of a decorated function.
RetryIdle ==
    /\ retry_state = [fn \in Wrapped |-> 0]
    /\ rcs = [o \in Invocations |-> NoState]
    /\ inv = [i \in Invocations |-> IdleInvocation]

\* The arguments of generate_text calls.
GenModels ==
    {<<"openai", "gpt-4o">>, <<"azure", "gpt-4">>, <<"gemini", "gemini-1.5-pro">>,
     <<"ollama", "phi4">>, <<"anthropic", "claude-3-5-sonnet-latest">>,
     <<"anthropic", "claude-3-5-haiku-latest">>, <<"anthropic", "claude-3-opus-latest">>,
     <<"deepseek", "deepseek-chat">>, <<"deepseek", "deepseek-reasoner">>,
     <<"gemini", "gemini-2.0-flash-exp">>, <<"mistral", "mistral-large">>}

\* url_variables: None (<<>>), an external URL, a local file path.
UrlVariables == {<<>>, <<"https://host/image.png">>, <<"file">>}

\* output_json_schema: None, an empty or blank str, a schema text.
OutputJsonSchemas ==
    {NoneSchema} \cup {StrSchema(t) : t \in BlankTexts \cup {PlainSchemaText, NamedSchemaText}}

\* output_schema: None (<<>>) or a simple schema.
GenOutputSchemas == {<<>>, <<[field |-> "answer", type |-> "str"]>>}

\* messages: with and without a system message.
MessageLists ==
    {<<Message("system", <<"be brief">>), Message("user", <<"question">>)>>,
     <<Message("user", <<"question">>)>>}

\* temperature: in tenths, 0.5 by default. api_base: None (<<>>) or a URL.
GenArguments ==
    [model_name : GenModels, json_mode : BOOLEAN, url_variables : UrlVariables,
     output_json_schema : OutputJsonSchemas, output_schema : GenOutputSchemas,
     temperature : {5}, api_base : {<<>>, <<"http://localhost:11434">>}]

\* The plain call: generate_text(messages, model_name).
PlainArguments ==
    [model_name : GenModels, json_mode : {FALSE}, url_variables : {<<>>},
     output_json_schema : {NoneSchema}, output_schema : {<<>>},
     temperature : {5}, api_base : {<<>>}]

\* Calls of registered models at temperatures from 0.0 to 2.5.
TempArguments ==
    [model_name : RegisteredIds, json_mode : BOOLEAN, url_variables : {<<>>},
     output_json_schema : {NoneSchema}, output_schema : {<<>>},
     temperature : {0, 5, 10, 15, 20, 25}, api_base : {<<>>}]

\* litellm.get_supported_openai_params and litellm.supports_response_schema.
Capabilities == [response_format : BOOLEAN, response_schema : BOOLEAN]

\* Provider response texts.
RespChars == {DQ, BS, NL, "\t", "{", "}", "1", "n"}

Texts(n) == UNION {[1..k -> RespChars] : k \in 0..n}

SampleResponses == {<<"1">>, <<"n">>, <<BS>>, <<"n", "{", "}">>}

GenReady(a) ==
    [pc |-> "ready", args |-> a, initial |-> <<>>, calls |-> 0,
     caps |-> [response_format |-> FALSE, response_schema |-> FALSE],
     request |-> GenRaised("-", <<>>), response |-> <<>>, returned |-> <<>>,
     error |-> "-"]

GenIdle ==
    /\ gen = GenReady([model_name |-> <<"-", "-">>, json_mode |-> FALSE,
                       url_variables |-> <<>>, output_json_schema |-> NoneSchema,
                       output_schema |-> <<>>, temperature |-> 5, api_base |-> <<>>])
    /\ messages = <<>>

\* Simple output schemas: dicts of up to MaxFields fields, a type each.
FieldNames == {"a", "b", "c"}

FieldTypes == SupportedTypes \cup {"list"}

OutputSchemas ==
    {s \in UNION {[1..k -> [field : FieldNames, type : FieldTypes]] : k \in 0..MaxFields} :
        \A i, j \in 1..Len(s) : i # j => s[i].field # s[j].field}

ConvReady(s) == [pc |-> "ready", input |-> s, output |-> EmptyJsonSchema]

ConvIdle == conv = ConvReady(<<>>)

Init ==
    /\ azure_key \in AzureKeys
    /\ RetryIdle
    /\ GenIdle
    /\ ConvIdle
    /\ HelpersIdle

\* A caller awaits wrapped_f(**kwargs): __aiter__ stores a new RetryCallState
\* in r, __anext__ hands out the first attempt and f is called. Invocations
\* are numbered in the order of their calls.
Call(i, fn, model) ==
    /\ inv[i].pc = "idle"
    /\ \A j \in Invocations : j < i => inv[j].pc # "idle"
    /\ fn = "ollama_with_backoff" => StartsWithOllamaSlash(model)
    /\ LET R == [rcs EXCEPT ![i] = NewRetryCallState]
           I == [inv[i] EXCEPT !.fn = fn, !.kwargs = [model |-> model]]
           n == Anext(I, i, R)
       IN /\ retry_state' = [retry_state EXCEPT ![fn] = i]
          /\ rcs' = n.rcs
          /\ inv' = [inv EXCEPT ![i] = n.inv]
    /\ UNCHANGED <<azure_key, gen, messages, conv, helperVars>>

\* The provider call of an attempt returns a response: the with block is
\* left by `return`, so wrapped_f returns the content.
Succeed(i, content) ==
    /\ inv[i].pc = "awaiting"
    /\ LET resp == Response(content) IN
       /\ rcs' = [rcs EXCEPT ![inv[i].attempt] = set_result(@)]
       /\ inv' = [inv EXCEPT ![i] = [@ EXCEPT !.pc = "returned", !.last = content,
                                              !.response = resp,
                                              !.result = FirstChoiceContent(resp)]]
    /\ UNCHANGED <<azure_key, retry_state, gen, messages, conv, helperVars>>

\* The provider call of an attempt raises e: f re-raises it, the attempt's
\* __exit__ records and swallows it, and the loop asks r for the next step.
Fail(i, e) ==
    /\ inv[i].pc = "awaiting"
    /\ LET R == [rcs EXCEPT ![inv[i].attempt] = set_exception(@, e)]
           I == [inv[i] EXCEPT !.last = e, !.failures = @ + 1]
           n == Anext(I, SharedRetryState(i, I.fn), R)
       IN /\ rcs' = n.rcs
          /\ inv' = [inv EXCEPT ![i] = n.inv]
    /\ UNCHANGED <<azure_key, retry_state, gen, messages, conv, helperVars>>

\* The backoff sleep of __anext__ ends and its loop calls iter again.
Wake(i) ==
    /\ inv[i].pc = "sleeping"
    /\ LET n == Anext(inv[i], SharedRetryState(i, inv[i].fn), rcs)
       IN /\ rcs' = n.rcs
          /\ inv' = [inv EXCEPT ![i] = n.inv]
    /\ UNCHANGED <<azure_key, retry_state, gen, messages, conv, helperVars>>

Next ==
    \/ \E i \in Invocations, fn \in Wrapped, m \in RetryModels : Call(i, fn, m)
    \/ \E i \in Invocations, c \in Contents : Succeed(i, c)
    \/ \E i \in Invocations, e \in Errors : Fail(i, e)
    \/ \E i \in Invocations : Wake(i)

Spec == Init /\ [][Next]_vars

\* Calls one after another: a call starts only when none is in flight.
NoneInFlight == \A j \in Invocations : inv[j].pc \in {"idle", "returned", "raised"}

NextSeq ==
    \/ \E i \in Invocations, fn \in Wrapped, m \in RetryModels :
          NoneInFlight /\ Call(i, fn, m)
    \/ \E i \in Invocations, c \in Contents : Succeed(i, c)
    \/ \E i \in Invocations, e \in Errors : Fail(i, e)
    \/ \E i \in Invocations : Wake(i)

SpecSeq == Init /\ [][NextSeq]_vars

(***************************************************************************)
(* generate_text as its caller sees it.                                    *)
(***************************************************************************)
InitGen ==
    /\ azure_key = ""
    /\ RetryIdle
    /\ ConvIdle
    /\ HelpersIdle
    /\ \E a \in GenArguments : gen = GenReady(a)
    /\ messages \in MessageLists

InitJson ==
    /\ azure_key = ""
    /\ RetryIdle
    /\ ConvIdle
    /\ HelpersIdle
    /\ \E a \in PlainArguments : gen = GenReady(a)
    /\ messages \in MessageLists

\* generate_text is called with the caller's list, and runs up to the await
\* of the backend (or raises before it).
GenCall(caps, readable) ==
    /\ gen.pc \in {"ready", "returned", "raised"}
    /\ gen.calls < MaxGenCalls
    /\ LET r == BuildRequest(gen.args, messages, caps, readable) IN
       /\ messages' = r.messages
       /\ gen' = [gen EXCEPT !.pc = IF r.raised THEN "raised" ELSE "awaiting",
                             !.initial = IF gen.calls = 0 THEN messages ELSE @,
                             !.calls = @ + 1,
                             !.caps = caps,
                             !.request = r,
                             !.error = r.error,
                             !.response = <<>>,
                             !.returned = <<>>]
    /\ UNCHANGED <<retryVars, conv, helperVars>>

\* The backend returns the response text: lines 650-694.
GenReturn(response) ==
    /\ gen.pc = "awaiting"
    /\ gen' = [gen EXCEPT !.pc = "returned",
                          !.response = response,
                          !.returned = PostProcess(SupportsJson(gen.args.model_name),
                                                   response)]
    /\ UNCHANGED <<retryVars, messages, conv, helperVars>>

\* The backend raises after its retries: generate_text lets it through.
GenBackendRaises ==
    /\ gen.pc = "awaiting"
    /\ gen' = [gen EXCEPT !.pc = "raised", !.error = "RetryError"]
    /\ UNCHANGED <<retryVars, messages, conv, helperVars>>

NextGen ==
    \/ \E caps \in Capabilities, readable \in BOOLEAN : GenCall(caps, readable)
    \/ \E response \in SampleResponses : GenReturn(response)
    \/ GenBackendRaises

SpecGen == InitGen /\ [][NextGen]_vars

NextJson ==
    \/ \E caps \in Capabilities, readable \in BOOLEAN : GenCall(caps, readable)
    \/ \E response \in Texts(MaxRespLen) : GenReturn(response)
    \/ GenBackendRaises

SpecJson == InitJson /\ [][NextJson]_vars

\* generate_text called for registered models over a range of temperatures.
InitTemp ==
    /\ azure_key = ""
    /\ RetryIdle
    /\ ConvIdle
    /\ HelpersIdle
    /\ \E a \in TempArguments : gen = GenReady(a)
    /\ messages \in MessageLists

SpecTemp == InitTemp /\ [][NextGen]_vars

(***************************************************************************)
(* convert_output_schema_to_json_schema applied to an output schema.       *)
(***************************************************************************)
InitSchema ==
    /\ azure_key = ""
    /\ RetryIdle
    /\ GenIdle
    /\ \E s \in OutputSchemas : conv = ConvReady(s)
    /\ HelpersIdle

Convert ==
    /\ conv.pc = "ready"
    /\ conv' = [conv EXCEPT !.pc = "done",
                            !.output = convert_output_schema_to_json_schema(conv.input)]
    /\ UNCHANGED <<retryVars, genVars, helperVars>>

NextSchema == Convert

SpecSchema == InitSchema /\ [][NextSchema]_vars

(***************************************************************************)
(* Lookups in the model registry, one after another.                       *)
(***************************************************************************)
\* Number of lookups of a run.
MaxLookups == 2

InitLookup ==
    /\ azure_key = ""
    /\ RetryIdle
    /\ GenIdle
    /\ ConvIdle
    /\ HelpersIdle

\* LLMModels.get_model_info(model_id) is called and answers.
Lookup(model_id) ==
    /\ Cardinality(looked_up) < MaxLookups
    /\ \A l \in looked_up : l.model_id # model_id
    /\ looked_up' = looked_up \cup {[model_id |-> model_id, answer |-> RegistryGet(model_id)]}
    /\ UNCHANGED <<retryVars, genVars, conv, azure_api_base, body, created>>

SpecLookup == InitLookup /\ [][\E model_id \in LookupIds : Lookup(model_id)]_vars

(***************************************************************************)
(* The module is loaded with AZURE_OPENAI_API_BASE set to some value.      *)
(***************************************************************************)
InitBase ==
    /\ azure_key = ""
    /\ RetryIdle
    /\ GenIdle
    /\ ConvIdle
    /\ looked_up = {}
    /\ \E initial \in AzureBases :
           azure_api_base = [pc |-> "unloaded", initial |-> initial, stored |-> initial]
    /\ body = BodyReady([model |-> <<"-", "-">>, api_key |-> <<>>, fallbacks |-> <<>>])
    /\ created = CreatedReady([system_message |-> <<>>, user_message |-> <<>>,
                               few_shot_examples |-> <<>>, history |-> <<>>])

\* Lines 32-35 run: the cleaned value is stored back in the environment.
LoadModule ==
    /\ azure_api_base.pc = "unloaded"
    /\ azure_api_base' = [azure_api_base EXCEPT
                              !.pc = "loaded",
                              !.stored = CleanAzureBase(azure_api_base.stored)]
    /\ UNCHANGED <<retryVars, genVars, conv, looked_up, body, created>>

SpecBase == InitBase /\ [][LoadModule]_vars

(***************************************************************************)
(* One run of the body of completion_with_backoff, with its error log.     *)
(***************************************************************************)
InitBody ==
    /\ azure_key \in AzureKeys
    /\ RetryIdle
    /\ GenIdle
    /\ ConvIdle
    /\ looked_up = {}
    /\ azure_api_base = [pc |-> "unloaded", initial |-> <<>>, stored |-> <<>>]
    /\ \E kwargs \in CompletionKwargs : body = BodyReady(kwargs)
    /\ created = CreatedReady([system_message |-> <<>>, user_message |-> <<>>,
                               few_shot_examples |-> <<>>, history |-> <<>>])

\* The body runs up to the await of acompletion (lines 462-487).
AwaitAcompletion ==
    /\ body.pc = "ready"
    /\ body' = [body EXCEPT !.pc = "awaiting",
                            !.branch = CompletionRequest(body.kwargs, azure_key).branch]
    /\ UNCHANGED <<retryVars, genVars, conv, looked_up, azure_api_base, created>>

\* acompletion returns: the content of the first choice is returned.
AcompletionReturns(content) ==
    /\ body.pc = "awaiting"
    /\ body' = [body EXCEPT !.pc = "returned",
                            !.result = FirstChoiceContent(Response(content))]
    /\ UNCHANGED <<retryVars, genVars, conv, looked_up, azure_api_base, created>>

\* acompletion raises e: the handler of line 489 logs save_config and
\* raises e again (the Azure branch re-raises it to that handler first).
AcompletionRaises(e) ==
    /\ body.pc = "awaiting"
    /\ body' = [body EXCEPT !.pc = "raised",
                            !.caught = e,
                            !.logged = Append(@, SaveConfig(body.kwargs)),
                            !.raised = e]
    /\ UNCHANGED <<retryVars, genVars, conv, looked_up, azure_api_base, created>>

NextBody ==
    \/ AwaitAcompletion
    \/ \E content \in Contents : AcompletionReturns(content)
    \/ \E e \in Errors : AcompletionRaises(e)

SpecBody == InitBody /\ [][NextBody]_vars

(***************************************************************************)
(* A call of create_messages.                                              *)
(***************************************************************************)
InitMessages ==
    /\ azure_key = ""
    /\ RetryIdle
    /\ GenIdle
    /\ ConvIdle
    /\ looked_up = {}
    /\ azure_api_base = [pc |-> "unloaded", initial |-> <<>>, stored |-> <<>>]
    /\ body = BodyReady([model |-> <<"-", "-">>, api_key |-> <<>>, fallbacks |-> <<>>])
    /\ \E a \in CreateArguments : created = CreatedReady(a)

\* create_messages runs: it builds a new list and assigns to neither of its
\* list arguments.
CreateMessages ==
    /\ created.pc = "ready"
    /\ created' = [created EXCEPT
                       !.pc = "returned",
                       !.result = create_messages(created.args.system_message,
                                                  created.args.user_message,
                                                  created.few_shot_examples,
                                                  created.history)]
    /\ UNCHANGED <<retryVars, genVars, conv, looked_up, azure_api_base, body>>

SpecMessages == InitMessages /\ [][CreateMessages]_vars

(***************************************************************************)
(* Claims about the retry wrapper.                                         *)
(***************************************************************************)
InFlight(i) == inv[i].pc \in {"awaiting", "sleeping"}

\* C1: when an attempt of completion_with_backoff raises AuthenticationError,
\* ValueError or RateLimitError, no further attempt and no backoff wait
\* follows (one attempt when it is the first), and that error is what the
\* caller gets.
C1_SurfacedImmediately ==
    \A i \in Invocations :
        (inv[i].fn = "completion_with_backoff" /\ inv[i].last \in NoRetryErrors)
        => /\ inv[i].pc = "raised"
           /\ inv[i].error = inv[i].last
           /\ inv[i].attempts = inv[i].failures
           /\ (inv[i].failures = 1 => inv[i].attempts = 1)

\* C2: every invocation of a retry-wrapped call makes at most 3 attempts; it
\* returns the content of its first successful attempt and raises only after
\* its third failed attempt; it never returns when all its attempts failed.
C2_AtMostThreeAttempts ==
    \A i \in Invocations :
        /\ inv[i].attempts <= MaxAttempts
        /\ inv[i].pc = "returned"
           => /\ inv[i].last \in Contents
              /\ inv[i].result = inv[i].last
              /\ inv[i].failures = inv[i].attempts - 1
        /\ inv[i].pc = "raised"
           => inv[i].attempts = MaxAttempts /\ inv[i].failures = MaxAttempts

\* C3: invocations in flight at the same time share no mutable state: the
\* retry state consulted for an invocation is the one its own call created,
\* its attempts are recorded there, and the attempt number kept there is the
\* number of attempts the invocation itself has made.
C3_NoSharedRetryState ==
    \A i \in Invocations :
        InFlight(i)
        => /\ SharedRetryState(i, inv[i].fn) = i
           /\ inv[i].attempt = i
           /\ inv[i].pc = "awaiting" => rcs[i].attempt_number = inv[i].attempts

\* C5: completion_with_backoff calls the completion endpoint with the
\* arguments of setup_azure_configuration exactly when the model starts with
\* "azure/" or the Azure key is set, and the model does not start with
\* "ollama/"; otherwise with the caller's keyword arguments unchanged; and
\* what it returns is the content of the first choice of the response.
C5_CallShape ==
    \A i \in Invocations :
        (inv[i].fn = "completion_with_backoff" /\ inv[i].attempts > 0)
        => LET model == inv[i].kwargs.model
               azure == /\ StartsWithAzureSlash(model) \/ azure_key # ""
                        /\ ~StartsWithOllamaSlash(model)
           IN /\ inv[i].sent.endpoint = "acompletion"
              /\ azure => inv[i].sent.args = setup_azure_configuration(inv[i].kwargs)
              /\ ~azure => inv[i].sent.args = Forward(inv[i].kwargs)
              /\ inv[i].pc = "returned"
                 => inv[i].result = inv[i].response.choices[1].message.content

\* An ollama/ model called while the Azure key is set, and a plain model that
\* the key sends to Azure, both returned.
C5_Witness ==
    \E i, j \in Invocations :
        /\ azure_key # ""
        /\ inv[i].fn = "completion_with_backoff" /\ inv[i].pc = "returned"
        /\ StartsWithOllamaSlash(inv[i].kwargs.model)
        /\ inv[j].fn = "completion_with_backoff" /\ inv[j].pc = "returned"
        /\ inv[j].kwargs.model = <<"openai", "gpt-4o">>
        /\ inv[j].sent.branch = "azure"

(***************************************************************************)
(* Claims about generate_text.                                             *)
(***************************************************************************)
\* C4: generate_text leaves the caller's messages list and its message
\* dictionaries unchanged: after any number of calls on the same list the
\* list equals its initial value.
C4_MessagesUnchanged == gen.calls > 0 => messages = gen.initial

\* C6: for a model that supports JSON output the string generate_text
\* returns is valid JSON, whatever text the provider returned.
C6_ReturnsValidJson ==
    (gen.pc = "returned" /\ SupportsJson(gen.args.model_name))
    => JsonValid(gen.returned)

\* C7: for a model that does not support JSON output the returned string
\* parses as a JSON object whose "output" field decodes to exactly the
\* provider's response text.
C7_OutputRoundTrip ==
    (gen.pc = "returned" /\ ~SupportsJson(gen.args.model_name))
    => /\ JsonOutputField(gen.returned).defined
       /\ JsonOutputField(gen.returned).value = gen.response

\* The models of C8: registered with supports_JSON_output=False, or absent
\* from the registry.
NoJsonOutput(model_name) ==
    \/ \A e \in model_registry : e.id # model_name
    \/ \E e \in model_registry :
           e.id = model_name /\ ~e.constraints.supports_JSON_output

HasJsonInstruction(msgs) ==
    \E i \in 1..Len(msgs) :
        \/ msgs[i] = JsonOnlyMessage
        \/ \E k \in 1..Len(msgs[i].content.text) :
               msgs[i].content.text[k] = SchemaInstruction

\* C8: for a model without JSON output the call never fails on the schema
\* arguments, the request sent carries no response_format, and no JSON
\* instruction is added to the messages, whatever json_mode and the schema
\* arguments are.
C8_NoSchemaProcessing ==
    (gen.calls > 0 /\ NoJsonOutput(gen.args.model_name))
    => /\ gen.error \notin {"TypeError", "StopIteration"}
       /\ ~gen.request.raised
          => /\ ~gen.request.kwargs.response_format.present
             /\ gen.request.backend = "completion_with_backoff"
             /\ ~HasJsonInstruction(gen.request.kwargs.messages)
             /\ ~HasJsonInstruction(messages)
             /\ gen.request.kwargs.messages = gen.initial

\* A model absent from the registry, called in JSON mode with a schema, its
\* request sent; and the provider would accept a response_format.
C8_Witness ==
    /\ gen.pc = "awaiting"
    /\ gen.args.model_name = <<"gemini", "gemini-2.0-flash-exp">>
    /\ gen.args.json_mode
    /\ gen.args.output_schema # <<>>
    /\ gen.caps.response_format /\ gen.caps.response_schema

\* C9: for a JSON-supporting model whose provider accepts response_format,
\* generate_text completes without error for every input (a blank
\* output_json_schema and a list without system message included); with
\* response-schema support response_format is {json_schema, S}, S the given
\* schema with additionalProperties False, wrapped as {schema, strict, name}
\* unless it has a "name" or "schema" key; without it response_format is
\* {json_object} and the schema text is appended to the first system message.
C9_SchemaFallback ==
    (gen.calls > 0 /\ SupportsJson(gen.args.model_name) /\ gen.caps.response_format)
    => /\ gen.error \notin {"TypeError", "StopIteration"}
       /\ ~gen.request.raised
          => LET rf == gen.request.kwargs.response_format
                 S == rf.json_schema.schema
             IN /\ rf.present
                /\ gen.caps.response_schema
                   => /\ rf.type = "json_schema"
                      /\ S.kind = "dict" /\ S.additionalProperties = "False"
                      /\ rf.json_schema.wrapped
                         <=> ({"name", "schema"} \cap S.keys = {})
                      /\ rf.json_schema.wrapped
                         => rf.json_schema.strict = "True" /\ rf.json_schema.name = "output"
                /\ ~gen.caps.response_schema
                   => /\ rf.type = "json_object"
                      /\ HasSystemMessage(gen.request.kwargs.messages)
                      /\ HasJsonInstruction(gen.request.kwargs.messages)

(***************************************************************************)
(* Claims about convert_output_schema_to_json_schema.                      *)
(***************************************************************************)
Fields(items) == {items[i].field : i \in 1..Len(items)}

\* C10: for an input whose field types are all supported the result has
\* type "object", additionalProperties False, a properties entry with the
\* JSON type for exactly the input fields, and the input field names in
\* input order as required; and for any input at all every name in required
\* has an entry in properties.
C10_ObjectSchema ==
    conv.pc = "done"
    => LET in == conv.input
           out == conv.output
       IN /\ (\A i \in 1..Len(in) : in[i].type \in SupportedTypes)
             => /\ out.type = "object"
                /\ out.additionalProperties = FALSE
                /\ Len(out.properties) = Len(in)
                /\ \A i \in 1..Len(in) :
                       /\ out.properties[i].field = in[i].field
                       /\ out.properties[i].schema.type
                          = (CASE in[i].type \in {"str", "string"} -> "string"
                               [] in[i].type \in {"int", "integer"} -> "integer"
                               [] in[i].type \in {"float", "number"} -> "number"
                               [] in[i].type \in {"bool", "boolean"} -> "boolean")
                /\ out.required = [i \in 1..Len(in) |-> in[i].field]
          /\ \A k \in 1..Len(out.required) :
                 out.required[k] \in Fields(out.properties)

(***************************************************************************)
(* Claims about the model registry and the temperature.                    *)
(***************************************************************************)
\* C11: get_model_info answers with an LLMModel for every member of the
\* LLMModels enumeration, with the member's value as id and the id's prefix
\* before "/" as provider, and with no entry only for ids that are not
\* members of the enumeration.
C11_RegistryTotal ==
    \A l \in looked_up :
        /\ l.model_id \in LLMModels
           => /\ l.answer.found
              /\ l.answer.info.id = l.model_id
              /\ l.answer.info.provider = l.model_id[1]
        /\ l.model_id \notin LLMModels => ~l.answer.found

\* C12: for every registered model and every temperature given to
\* generate_text, the request sent to the backend carries no temperature
\* (deepseek/deepseek-reasoner) or one within the model's
\* [min_temperature, max_temperature].
C12_TemperatureInRange ==
    (gen.calls > 0 /\ ~gen.request.raised /\ ~NotRegistered(gen.args.model_name))
    => LET c == get_model_info(gen.args.model_name).constraints
           sent == IF gen.request.backend = "ollama_with_backoff"
                   THEN gen.request.ollama.options.temperature
                   ELSE gen.request.kwargs.temperature
       IN \/ sent = <<>> /\ gen.args.model_name = <<"deepseek", "deepseek-reasoner">>
          \/ /\ sent # <<>>
             /\ c.min_temperature <= sent[1]
             /\ sent[1] <= c.max_temperature

(***************************************************************************)
(* Claims about the module load and the error log.                         *)
(***************************************************************************)
\* C13: the value stored back in AZURE_OPENAI_API_BASE is the initial value
\* without its trailing "/" characters and then, if that ends with
\* "/openai", without exactly that one suffix; nothing else is removed.
C13_AzureBaseCleaned ==
    azure_api_base.pc = "loaded"
    => LET unslashed == RStrip(azure_api_base.initial, {"/"})
       IN azure_api_base.stored
          = IF EndsWith(unslashed, SlashOpenai)
            THEN SubSeq(unslashed, 1, Len(unslashed) - Len(SlashOpenai))
            ELSE unslashed

\* C14: when completion_with_backoff logs a failed request, every api_key
\* of the request, at the top level or inside an argument, appears in the
\* logged configuration as the mask; the caller's kwargs are as they were
\* at the call; and the exception raised is the one that was caught.
C14_LogMasksApiKeys ==
    body.pc = "raised"
    => /\ Len(body.logged) = 1
       /\ body.called_with.api_key # <<>> => body.logged[1].api_key = <<"********">>
       /\ \A k \in 1..Len(body.called_with.fallbacks) :
              body.called_with.fallbacks[k].api_key # <<>>
              => body.logged[1].fallbacks[k].api_key = <<"********">>
       /\ body.kwargs = body.called_with
       /\ body.raised = body.caught

(***************************************************************************)
(* Claims about the routing of generate_text and about create_messages.    *)
(***************************************************************************)
\* C15: every call of generate_text reaches a backend, once:
\* ollama_with_backoff, with format "json", the model name and the given
\* api_base, exactly when json_mode is true, the model supports JSON output
\* and its name starts with "ollama", and completion_with_backoff in every
\* other case; and in JSON mode for a JSON-supporting model that is neither
\* an Ollama model nor a Gemini model with url_variables the JSON-only
\* system instruction is the first message of the request.
C15_Routing ==
    gen.calls > 0
    => LET a == gen.args
           r == gen.request
           json == a.json_mode /\ SupportsJson(a.model_name)
           ollama == json /\ StartsWithOllama(a.model_name)
       IN /\ ~r.raised
          /\ ollama => /\ r.backend = "ollama_with_backoff"
                       /\ r.ollama.format = "json"
                       /\ r.ollama.model = a.model_name
                       /\ r.ollama.api_base = a.api_base
          /\ ~ollama => r.backend = "completion_with_backoff"
          /\ (json /\ ~ollama
              /\ ~(StartsWithGemini(a.model_name) /\ a.url_variables # <<>>))
             => /\ r.kwargs.messages # <<>>
                /\ r.kwargs.messages[1] = JsonOnlyMessage

\* C16: the list create_messages returns is the system message, then a
\* user and an assistant message per example in example order, then the
\* history in its order, then the user message; its length is
\* 2 + 2 * (number of examples) + (number of history messages); and the
\* few_shot_examples and history arguments are as they were.
C16_MessageOrder ==
    created.pc = "returned"
    => LET a == created.args
           r == created.result
           n == Len(a.few_shot_examples)
           h == Len(a.history)
       IN /\ Len(r) = 2 + 2 * n + h
          /\ r[1] = Message("system", a.system_message)
          /\ \A k \in 1..n :
                 /\ r[2 * k] = Message("user", a.few_shot_examples[k].input)
                 /\ r[2 * k + 1] = Message("assistant", a.few_shot_examples[k].output)
          /\ \A k \in 1..h : r[1 + 2 * n + k] = a.history[k]
          /\ r[Len(r)] = Message("user", a.user_message)
          /\ created.few_shot_examples = a.few_shot_examples
          /\ created.history = a.history

\* A list built from two different examples and a history of two messages.
C16_Witness ==
    /\ created.pc = "returned"
    /\ Len(created.args.few_shot_examples) = MaxExamples
    /\ created.args.few_shot_examples[1] # created.args.few_shot_examples[2]
    /\ Len(created.args.history) = MaxHistory
    /\ created.args.history[1].role = "system"

====
